---- MODULE Spec2Model ----
(***************************************************************************)
(* Share-link gated view tracking of the product-demo platform.            *)
(*                                                                         *)
(* The model follows SharedDemoViewer (the /shared/:token page) and the    *)
(* AnalyticsService it calls.  Every await of the page is one step of a    *)
(* viewer; the store (share_links, demos, demo_steps, demo_views) is       *)
(* shared by all viewers.                                                  *)
(***************************************************************************)
EXTENDS Integers, Sequences, FiniteSets, TLC

\* ------------------------------------------------------------------ bounds
MaxTime == 2        \* the clock runs over 0..MaxTime (seconds)
MaxSteps == 2       \* a demo has 0..MaxSteps steps

\* --------------------------------------------------------------- constants
NULL == -1          \* SQL NULL / JavaScript null for numeric and id columns

Sessions == {"s1", "s2", "s3"}
LinkIds == {"L1", "L2"}
DemoIds == {"D1", "D2"}

\* tokens are strings of hex digits; a sequence of digits stands for one
Tokens == {<<1, 2>>, <<2, 1>>, <<1>>, <<2, 2>>}
NoToken == <<>>

\* the messages setError is called with
NoError == "none"
LinkInvalid == "Invalid or expired share link"
LinkExpired == "This share link has expired"
LinkExhausted == "This share link has reached its view limit"
DemoNotFound == "Demo not found"

VARIABLES
    now,            \* wall clock, new Date() / Date.now()
    share_links,    \* table share_links: LinkIds -> row
    demos,          \* ids of the rows of table demos the viewer can read
    demo_steps,     \* table demo_steps: number of steps of each demo
    demo_views,     \* table demo_views: sequence of rows, id = position
    viewCount0,     \* history: view_count of each link in the initial state
    pc,             \* position of each viewer in validateAndFetchDemo
    mounted,        \* the component of the viewer is mounted
    token,          \* params.token
    linkData,       \* rows returned by the share_links select
    shareLink,      \* useState shareLink (set of at most one row)
    demo,           \* useState demo (NULL or the demo id)
    steps,          \* useState steps, as steps.length
    currentStep,    \* useState currentStep
    isPlaying,      \* useState isPlaying
    loading,        \* useState loading
    error,          \* useState error
    viewId,         \* useState viewId
    startTime,      \* startTimeRef.current
    updateError,    \* updateError of trackView
    viewRecord,     \* viewRecord built by AnalyticsService.trackView
    teardownUpdate, \* history: the unmount cleanup called updateViewProgress
    dateNow,        \* new Date() in the browser that shows the dashboard
    tzOffset,       \* time zone of that browser: local time - UTC
    demoRows,       \* table demos as the dashboard's select returns it
    viewRows,       \* table demo_views as the dashboard's select reads it
    call,           \* the last call of getUserAnalytics / getDemoAnalytics
    analytics,      \* the AnalyticsData that call returned
    hbDue,          \* time of the next tick of the heartbeat interval
    advDue,         \* time of the next tick of the auto-advance interval
    lastUpdate      \* history: time a progress update was last issued

viewerVars == <<now, share_links, demos, demo_steps, demo_views, viewCount0, pc,
                mounted, token, linkData, shareLink, demo, steps, currentStep,
                isPlaying, loading, error, viewId, startTime, updateError,
                viewRecord, teardownUpdate>>

dashVars == <<dateNow, tzOffset, demoRows, viewRows, call, analytics>>
timerVars == <<hbDue, advDue, lastUpdate>>
otherVars == <<dashVars, timerVars>>

vars == <<viewerVars, dashVars, timerVars>>

storeVars == <<share_links, demos, demo_steps, demo_views, viewCount0>>
playVars == <<currentStep, isPlaying, startTime>>

\* ---------------------------------------------------------------- helpers
\* JavaScript truthiness of a nullable number: null and 0 are falsy
Truthy(n) == n # NULL /\ n # 0

\* JavaScript truthiness of a nullable timestamp string: only null is falsy
HasValue(t) == t # NULL

\* mutant of TokenMatches: the given token matches as a prefix of the stored one
TokenMatchesPrefix(stored, given) ==
    /\ Len(given) <= Len(stored)
    /\ SubSeq(stored, 1, Len(given)) = given

\* .eq("token", params.token): exact equality of the two strings
TokenMatches(stored, given) == stored = given

\* .from("share_links").select("*").eq("token", t).eq("is_active", true)
SelectLink(t) ==
    {share_links[l] : l \in {k \in LinkIds :
        /\ TokenMatches(share_links[k].token, t)
        /\ share_links[k].is_active = TRUE}}

\* .single(): data is the row when exactly one row matched, else an error
SingleOk(rows) == Cardinality(rows) = 1
Row(rows) == CHOOSE r \in rows : TRUE

\* useState initial values, the values seen by closures of the first render
InitialSteps == 0
InitialViewId == NULL

NoRecord == [demo_id |-> "none", share_link_id |-> "none", viewed_at |-> NULL,
             time_spent |-> NULL, completed_steps |-> NULL, total_steps |-> NULL]


\* ------------------------------------------------------------- initial state
\* A row of share_links as ShareLinkGenerator.generateShareLink inserts it
\* (view_count and is_active may since have been changed in the store).
LinkRow(l, d, tok, exp, act, vc, mv) ==
    [id |-> l, demo_id |-> d, token |-> tok, expires_at |-> exp,
     is_active |-> act, view_count |-> vc, max_views |-> mv]

DemoOf(l) == IF l = "L1" THEN "D1" ELSE "D2"

\* the state of every viewer before its component is constructed
InitViewers(present, tok) ==
    /\ pc = [s \in Sessions |-> IF s \in present THEN "mount" ELSE "absent"]
    /\ mounted = [s \in Sessions |-> s \in present]
    /\ token = [s \in Sessions |-> IF s \in present THEN tok ELSE NoToken]
    /\ linkData = [s \in Sessions |-> {}]
    /\ shareLink = [s \in Sessions |-> {}]
    /\ demo = [s \in Sessions |-> "none"]
    /\ steps = [s \in Sessions |-> InitialSteps]
    /\ currentStep = [s \in Sessions |-> 0]
    /\ isPlaying = [s \in Sessions |-> FALSE]
    /\ loading = [s \in Sessions |-> TRUE]
    /\ error = [s \in Sessions |-> NoError]
    /\ viewId = [s \in Sessions |-> InitialViewId]
    /\ startTime = [s \in Sessions |-> now]
    /\ updateError = [s \in Sessions |-> FALSE]
    /\ viewRecord = [s \in Sessions |-> NoRecord]
    /\ teardownUpdate = [s \in Sessions |-> FALSE]

\* one viewer, any link: every combination of the guard's inputs
InitOne ==
    /\ now = 0
    /\ \E act \in BOOLEAN, exp \in {NULL, 1}, mv \in {NULL, 0, 1, 2},
          vc \in 0..2 :
          share_links = [l \in LinkIds |->
              IF l = "L1" THEN LinkRow(l, DemoOf(l), <<1, 2>>, exp, act, vc, mv)
              ELSE LinkRow(l, DemoOf(l), <<2, 1>>, NULL, TRUE, 0, NULL)]
    /\ demos \in {{"D1", "D2"}, {"D2"}}
    /\ \E n \in 0..MaxSteps : demo_steps = [d \in DemoIds |-> IF d = "D1" THEN n ELSE 1]
    /\ demo_views = <<>>
    /\ \E tok \in Tokens : InitViewers({"s1"}, tok)

\* three viewers open the same link at the same time
InitRace ==
    /\ now = MaxTime
    /\ \E mv \in {NULL, 1} :
          share_links = [l \in LinkIds |->
              IF l = "L1" THEN LinkRow(l, DemoOf(l), <<1, 2>>, NULL, TRUE, 0, mv)
              ELSE LinkRow(l, DemoOf(l), <<2, 1>>, NULL, TRUE, 0, NULL)]
    /\ demos = {"D1", "D2"}
    /\ demo_steps = [d \in DemoIds |-> 1]
    /\ demo_views = <<>>
    /\ InitViewers(Sessions, <<1, 2>>)

\* no dashboard call has been made
NoCall == [fn |-> "none", id |-> "none", timeRange |-> "none",
           demosFetch |-> "none", viewsFetch |-> "none"]

\* the dashboard is not open
NoDashboard ==
    /\ dateNow = 0
    /\ tzOffset = 0
    /\ demoRows = <<>>
    /\ viewRows = <<>>
    /\ call = NoCall
    /\ analytics = <<>>

\* the intervals are not followed on the clock
NoTimers ==
    /\ hbDue = [s \in Sessions |-> NULL]
    /\ advDue = [s \in Sessions |-> NULL]
    /\ lastUpdate = [s \in Sessions |-> NULL]

Init ==
    /\ InitOne \/ InitRace
    /\ viewCount0 = [l \in LinkIds |-> share_links[l].view_count]
    /\ NoDashboard
    /\ NoTimers

\* ------------------------------------------------------------------- clock
Tick ==
    /\ now < MaxTime
    /\ now' = now + 1
    /\ UNCHANGED otherVars
    /\ UNCHANGED <<storeVars, pc, mounted, token, linkData, shareLink, demo,
                   steps, playVars, loading, error, viewId, updateError,
                   viewRecord, teardownUpdate>>

\* ------------------------------------------------- validateAndFetchDemo
\* mutant of FetchLink: the lookup itself counts the attempt on the matched link
FetchLinkCounting(s) ==
    /\ pc[s] = "mount"
    /\ linkData' = [linkData EXCEPT ![s] = SelectLink(token[s])]
    /\ share_links' = [l \in LinkIds |->
          IF share_links[l] \in SelectLink(token[s])
          THEN [share_links[l] EXCEPT !.view_count = @ + 1]
          ELSE share_links[l]]
    /\ pc' = [pc EXCEPT ![s] = "checkLink"]
    /\ UNCHANGED otherVars
    /\ UNCHANGED <<now, demos, demo_steps, demo_views, viewCount0, mounted,
                   token, shareLink, demo, steps, playVars, loading, error,
                   viewId, updateError, viewRecord, teardownUpdate>>

\* useEffect(() => validateAndFetchDemo(), [params.token]): the select of
\* share_links is evaluated by the store
FetchLink(s) ==
    /\ pc[s] = "mount"
    /\ linkData' = [linkData EXCEPT ![s] = SelectLink(token[s])]
    /\ pc' = [pc EXCEPT ![s] = "checkLink"]
    /\ UNCHANGED otherVars
    /\ UNCHANGED <<now, storeVars, mounted, token, shareLink, demo, steps,
                   playVars, loading, error, viewId, updateError, viewRecord, teardownUpdate>>

\* mutant of GuardResult: the view limit is checked before the expiry
GuardResultLimitFirst(rows, t) ==
    IF ~SingleOk(rows) THEN LinkInvalid
    ELSE IF Truthy(Row(rows).max_views)
            /\ Row(rows).view_count >= Row(rows).max_views
         THEN LinkExhausted
    ELSE IF HasValue(Row(rows).expires_at) /\ Row(rows).expires_at < t
         THEN LinkExpired
    ELSE NoError

\* the three checks on linkData, evaluated when the select has returned
GuardResult(rows, t) ==
    IF ~SingleOk(rows) THEN LinkInvalid
    ELSE IF HasValue(Row(rows).expires_at) /\ Row(rows).expires_at < t
         THEN LinkExpired
    ELSE IF Truthy(Row(rows).max_views)
            /\ Row(rows).view_count >= Row(rows).max_views
         THEN LinkExhausted
    ELSE NoError

CheckLink(s) ==
    /\ pc[s] = "checkLink"
    /\ IF GuardResult(linkData[s], now) # NoError
       THEN /\ error' = [error EXCEPT ![s] = GuardResult(linkData[s], now)]
            /\ loading' = [loading EXCEPT ![s] = FALSE]
            /\ pc' = [pc EXCEPT ![s] = "done"]
            /\ UNCHANGED shareLink
       ELSE /\ shareLink' = [shareLink EXCEPT ![s] = linkData[s]]
            /\ pc' = [pc EXCEPT ![s] = "fetchDemo"]
            /\ UNCHANGED <<error, loading>>
    /\ UNCHANGED otherVars
    /\ UNCHANGED <<now, storeVars, mounted, token, linkData, demo, steps,
                   playVars, viewId, updateError, viewRecord, teardownUpdate>>

FetchDemo(s) ==
    /\ pc[s] = "fetchDemo"
    /\ IF Row(linkData[s]).demo_id \in demos
       THEN /\ demo' = [demo EXCEPT ![s] = Row(linkData[s]).demo_id]
            /\ pc' = [pc EXCEPT ![s] = "fetchSteps"]
            /\ UNCHANGED <<error, loading>>
       ELSE /\ error' = [error EXCEPT ![s] = DemoNotFound]
            /\ loading' = [loading EXCEPT ![s] = FALSE]
            /\ pc' = [pc EXCEPT ![s] = "done"]
            /\ UNCHANGED demo
    /\ UNCHANGED otherVars
    /\ UNCHANGED <<now, storeVars, mounted, token, linkData, shareLink, steps,
                   playVars, viewId, updateError, viewRecord, teardownUpdate>>

FetchSteps(s) ==
    /\ pc[s] = "fetchSteps"
    /\ steps' = [steps EXCEPT ![s] = demo_steps[Row(linkData[s]).demo_id]]
    /\ pc' = [pc EXCEPT ![s] = "trackView"]
    /\ UNCHANGED otherVars
    /\ UNCHANGED <<now, storeVars, mounted, token, linkData, shareLink, demo,
                   playVars, loading, error, viewId, updateError, viewRecord, teardownUpdate>>

\* ----------------------------------------------------------------- trackView
\* the value trackView writes: (linkData.view_count || 0) + 1, computed from
\* the row read by the select of validateAndFetchDemo
IncrementedCount(row) == (IF Truthy(row.view_count) THEN row.view_count ELSE 0) + 1

\* .from("share_links").update({ view_count }).eq("id", linkData.id)
UpdateViewCount(links, row) ==
    [links EXCEPT ![row.id].view_count = IncrementedCount(row)]

\* the row AnalyticsService.trackView builds; trackView passes steps.length of
\* the render validateAndFetchDemo was created in, the first one
BuildViewRecord(demoId, shareLinkId, totalSteps, t) ==
    [demo_id |-> demoId, share_link_id |-> shareLinkId, viewed_at |-> t,
     time_spent |-> 0, completed_steps |-> 0,
     total_steps |-> IF Truthy(totalSteps) THEN totalSteps ELSE 0]

\* first await of trackView: the update of share_links succeeds or returns an
\* error (logged); then AnalyticsService.trackView builds its row
IncrementViewCount(s) ==
    /\ pc[s] = "trackView"
    /\ \E ok \in BOOLEAN :
          /\ share_links' = IF ok THEN UpdateViewCount(share_links, Row(linkData[s]))
                            ELSE share_links
          /\ updateError' = [updateError EXCEPT ![s] = ~ok]
    /\ viewRecord' = [viewRecord EXCEPT ![s] =
          BuildViewRecord(Row(linkData[s]).demo_id, Row(linkData[s]).id,
                          InitialSteps, now)]
    /\ pc' = [pc EXCEPT ![s] = "insertView"]
    /\ UNCHANGED otherVars
    /\ UNCHANGED <<now, demos, demo_steps, demo_views, viewCount0, mounted,
                   token, linkData, shareLink, demo, steps, playVars, loading,
                   error, viewId, teardownUpdate>>

\* mutant of InsertRow: the row is inserted twice
InsertRowTwice(views, rec) == Append(Append(views, rec), rec)

\* .from("demo_views").insert([viewRecord]).select().single()
InsertRow(views, rec) == Append(views, rec)

\* mutant of InsertView: a failed insert is rethrown to the catch of
\* validateAndFetchDemo, which shows "Failed to load demo"
InsertViewFailureBlocks(s) ==
    /\ pc[s] = "insertView"
    /\ \E ok \in BOOLEAN :
          IF ok
          THEN /\ demo_views' = InsertRow(demo_views, viewRecord[s])
               /\ viewId' = [viewId EXCEPT ![s] = Len(demo_views')]
               /\ UNCHANGED error
          ELSE /\ error' = [error EXCEPT ![s] = "Failed to load demo"]
               /\ UNCHANGED <<demo_views, viewId>>
    /\ loading' = [loading EXCEPT ![s] = FALSE]
    /\ pc' = [pc EXCEPT ![s] = "ready"]
    /\ UNCHANGED otherVars
    /\ UNCHANGED <<now, share_links, demos, demo_steps, viewCount0, mounted,
                   token, linkData, shareLink, demo, steps, playVars,
                   updateError, viewRecord, teardownUpdate>>

\* second await of trackView: the insert succeeds (setViewId) or fails (null);
\* then finally { setLoading(false) }
InsertView(s) ==
    /\ pc[s] = "insertView"
    /\ \E ok \in BOOLEAN :
          IF ok
          THEN /\ demo_views' = InsertRow(demo_views, viewRecord[s])
               /\ viewId' = [viewId EXCEPT ![s] = Len(demo_views')]
          ELSE UNCHANGED <<demo_views, viewId>>
    /\ loading' = [loading EXCEPT ![s] = FALSE]
    /\ pc' = [pc EXCEPT ![s] = "ready"]
    /\ UNCHANGED otherVars
    /\ UNCHANGED <<now, share_links, demos, demo_steps, viewCount0, mounted,
                   token, linkData, shareLink, demo, steps, playVars, error,
                   updateError, viewRecord, teardownUpdate>>

\* ------------------------------------------------------------ progress writes
\* mutant of WriteProgress: the update adds to the stored values
WriteProgressAccumulates(views, id, timeSpent, completedSteps) ==
    [views EXCEPT ![id].time_spent = @ + timeSpent,
                  ![id].completed_steps = @ + completedSteps]

\* mutant of WriteProgress: the update has no .eq("id", viewId) filter
WriteProgressAllRows(views, id, timeSpent, completedSteps) ==
    [j \in DOMAIN views |->
        [views[j] EXCEPT !.time_spent = timeSpent,
                         !.completed_steps = completedSteps]]

\* AnalyticsService.updateViewProgress: overwrite the two fields of the row
WriteProgress(views, id, timeSpent, completedSteps) ==
    [views EXCEPT ![id].time_spent = timeSpent,
                  ![id].completed_steps = completedSteps]

\* Math.floor((Date.now() - startTimeRef.current) / 1000)
TimeSpent(start) == now - start

\* updateViewProgress as called from a closure that sees viewId = id and
\* currentStep = step; the write may fail (caught and logged)
updateViewProgress(id, start, step) ==
    IF id = NULL
    THEN UNCHANGED demo_views
    ELSE \E ok \in BOOLEAN :
            demo_views' = IF ok THEN WriteProgress(demo_views, id, TimeSpent(start), step + 1)
                          ELSE demo_views

\* trackCompletion: the same write with completedSteps = steps.length
trackCompletion(s) ==
    IF viewId[s] = NULL
    THEN UNCHANGED demo_views
    ELSE \E ok \in BOOLEAN :
            demo_views' = IF ok THEN WriteProgress(demo_views, viewId[s],
                                                   TimeSpent(startTime[s]), steps[s])
                          ELSE demo_views

\* the controls are rendered once loading is false, there is no error, the
\* demo is set and it has steps
Playable(s) ==
    /\ mounted[s]
    /\ ~loading[s]
    /\ error[s] = NoError
    /\ demo[s] # "none"
    /\ steps[s] # 0

frame == <<now, share_links, demos, demo_steps, viewCount0, pc, mounted, token,
           linkData, shareLink, demo, steps, loading, error, viewId,
           updateError, viewRecord, teardownUpdate, otherVars>>

\* mutant of nextStep: the handler does not test currentStep < steps.length - 1
nextStepUnguarded(s) ==
    /\ Playable(s)
    /\ currentStep' = [currentStep EXCEPT ![s] = currentStep[s] + 1]
    /\ updateViewProgress(viewId[s], startTime[s], currentStep[s])
    /\ UNCHANGED <<frame, isPlaying, startTime>>

nextStep(s) ==
    /\ Playable(s)
    /\ currentStep[s] < steps[s] - 1
    /\ currentStep' = [currentStep EXCEPT ![s] = currentStep[s] + 1]
    /\ updateViewProgress(viewId[s], startTime[s], currentStep[s])
    /\ UNCHANGED <<frame, isPlaying, startTime>>

prevStep(s) ==
    /\ Playable(s)
    /\ currentStep[s] > 0
    /\ currentStep' = [currentStep EXCEPT ![s] = currentStep[s] - 1]
    /\ updateViewProgress(viewId[s], startTime[s], currentStep[s])
    /\ UNCHANGED <<frame, isPlaying, startTime>>

\* the Restart button is disabled when currentStep === 0 && !isPlaying
restart(s) ==
    /\ Playable(s)
    /\ ~(currentStep[s] = 0 /\ ~isPlaying[s])
    /\ currentStep' = [currentStep EXCEPT ![s] = 0]
    /\ isPlaying' = [isPlaying EXCEPT ![s] = FALSE]
    /\ startTime' = [startTime EXCEPT ![s] = now]
    /\ updateViewProgress(viewId[s], now, currentStep[s])
    /\ UNCHANGED frame

\* the Play button: setIsPlaying(!isPlaying), disabled at the last step
togglePlay(s) ==
    /\ Playable(s)
    /\ ~(currentStep[s] >= steps[s] - 1 /\ ~isPlaying[s])
    /\ isPlaying' = [isPlaying EXCEPT ![s] = ~isPlaying[s]]
    /\ UNCHANGED <<frame, demo_views, currentStep, startTime>>

\* a button of the step navigation: setCurrentStep(index); updateViewProgress()
jumpToStep(s, index) ==
    /\ Playable(s)
    /\ currentStep' = [currentStep EXCEPT ![s] = index]
    /\ updateViewProgress(viewId[s], startTime[s], currentStep[s])
    /\ UNCHANGED <<frame, isPlaying, startTime>>

\* the 3 s interval exists from the run of the auto-advance effect with
\* isPlaying && steps.length > 0 until its cleanup (next run or unmount)
AdvanceTimerActive(s) == mounted[s] /\ isPlaying[s] /\ steps[s] > 0

\* a tick of the 3 s interval of the auto-advance effect
AutoAdvance(s) ==
    /\ AdvanceTimerActive(s)
    /\ IF currentStep[s] >= steps[s] - 1
       THEN /\ isPlaying' = [isPlaying EXCEPT ![s] = FALSE]
            /\ trackCompletion(s)
            /\ UNCHANGED currentStep
       ELSE /\ currentStep' = [currentStep EXCEPT ![s] = currentStep[s] + 1]
            /\ UNCHANGED <<isPlaying, demo_views>>
    /\ UNCHANGED <<frame, startTime>>

\* mutant of Heartbeat: the periodic update counts the view again
HeartbeatRecounts(s) ==
    /\ mounted[s]
    /\ viewId[s] # NULL
    /\ updateViewProgress(viewId[s], startTime[s], currentStep[s])
    /\ share_links' = [share_links EXCEPT ![Row(linkData[s]).id].view_count = @ + 1]
    /\ UNCHANGED otherVars
    /\ UNCHANGED <<now, demos, demo_steps, viewCount0, pc, mounted, token,
                   linkData, shareLink, demo, steps, loading, error, viewId,
                   updateError, viewRecord, teardownUpdate, playVars>>

\* mutant of HeartbeatTimerActive: the interval is not cleared on unmount
HeartbeatTimerLeaks(s) == pc[s] # "absent"

\* the 10 s interval exists from the first run of the heartbeat effect until
\* its cleanup on unmount (every run in between clears and sets it again)
HeartbeatTimerActive(s) == mounted[s]

\* a tick of the 10 s interval of the heartbeat effect
Heartbeat(s) ==
    /\ HeartbeatTimerActive(s)
    /\ viewId[s] # NULL
    /\ updateViewProgress(viewId[s], startTime[s], currentStep[s])
    /\ UNCHANGED <<frame, playVars>>

\* the component unmounts: both intervals are cleared and the cleanup of the
\* effect with no dependencies runs, in the closure of the first render
Unmount(s) ==
    /\ mounted[s]
    /\ mounted' = [mounted EXCEPT ![s] = FALSE]
    /\ IF InitialViewId # NULL
       THEN /\ updateViewProgress(InitialViewId, startTime[s], 0)
            /\ teardownUpdate' = [teardownUpdate EXCEPT ![s] = TRUE]
       ELSE UNCHANGED <<demo_views, teardownUpdate>>
    /\ UNCHANGED otherVars
    /\ UNCHANGED <<now, share_links, demos, demo_steps, viewCount0, pc, token,
                   linkData, shareLink, demo, steps, playVars, loading, error,
                   viewId, updateError, viewRecord>>

Next ==
    \/ Tick
    \/ \E s \in Sessions : FetchLink(s)
    \/ \E s \in Sessions : CheckLink(s)
    \/ \E s \in Sessions : FetchDemo(s)
    \/ \E s \in Sessions : FetchSteps(s)
    \/ \E s \in Sessions : IncrementViewCount(s)
    \/ \E s \in Sessions : InsertView(s)
    \/ \E s \in Sessions : nextStep(s)
    \/ \E s \in Sessions : prevStep(s)
    \/ \E s \in Sessions : restart(s)
    \/ \E s \in Sessions : togglePlay(s)
    \/ \E s \in Sessions : \E index \in 0..(steps[s] - 1) : jumpToStep(s, index)
    \/ \E s \in Sessions : AutoAdvance(s)
    \/ \E s \in Sessions : Heartbeat(s)
    \/ \E s \in Sessions : Unmount(s)

Spec == Init /\ [][Next]_vars

\* ====================================================================
\* AnalyticsService: the aggregation the dashboard reads
\* ====================================================================
TicksPerDay == 2    \* the dashboard's clock has TicksPerDay ticks a day
MaxViews == 2       \* table demo_views holds at most MaxViews rows

UserIds == {"U1", "U2"}
TimeRanges == {"7d", "30d", "90d"}

\* a select returns its rows, or { data: null, error }, or the call rejects
FetchOutcomes == {"ok", "error", "throws"}

\* rows of table demos and of table demo_views, with the columns the
\* aggregation reads
DemoTitle(d) == IF d = "D1" THEN "Beta" ELSE "Alpha"
DemoRecord(d, owner) == [id |-> d, title |-> DemoTitle(d), owner_id |-> owner]
ViewRecord(d, ip, t, spent, completed, total) ==
    [demo_id |-> d, viewer_ip |-> ip, viewed_at |-> t, time_spent |-> spent,
     completed_steps |-> completed, total_steps |-> total]

\* JavaScript numbers that are not integers: the quotient a / b in lowest
\* terms; 0 / 0 stands for NaN
RECURSIVE GCD(_, _)
GCD(a, b) == IF b = 0 THEN a ELSE GCD(b, a % b)
Divide(a, b) ==
    IF b = 0 THEN [num |-> 0, den |-> 0]
    ELSE [num |-> a \div GCD(a, b), den |-> b \div GCD(a, b)]
Number(n) == Divide(n, 1)
NaN == Divide(0, 0)

\* data of a select: null, or the rows
NullData == [isNull |-> TRUE, rows |-> <<>>]
Data(rows) == [isNull |-> FALSE, rows |-> rows]

\* views || []
OrEmpty(data) == IF data.isNull THEN <<>> ELSE data.rows

\* timeRange === "7d" ? 7 : timeRange === "30d" ? 30 : 90
Days(timeRange) ==
    IF timeRange = "7d" THEN 7 ELSE IF timeRange = "30d" THEN 30 ELSE 90

\* date.setDate(date.getDate() - n): the same time of day, n days earlier
DaysBefore(t, n) == t - n * TicksPerDay

\* date.toISOString().split("T")[0], and the date a stored viewed_at starts
\* with: the calendar day in UTC
UTCDate(t) == t \div TicksPerDay

\* date.toLocaleDateString("en-US", ...): the calendar day in the browser's
\* time zone
LocalDate(t) == (t + tzOffset) \div TicksPerDay

\* .from("demo_views").select("*").in("demo_id", ids).gte("viewed_at", start)
SelectViews(ids, start) ==
    SelectSeq(viewRows, LAMBDA v : v.demo_id \in ids /\ v.viewed_at >= start)

\* views.reduce((acc, v) => acc + (v.time_spent || 0), 0)
RECURSIVE SumTimeSpent(_)
SumTimeSpent(views) ==
    IF views = <<>> THEN 0
    ELSE (IF Truthy(Head(views).time_spent) THEN Head(views).time_spent ELSE 0)
         + SumTimeSpent(Tail(views))

\* views?.length || 0
TotalViews(data) == Len(OrEmpty(data))

\* new Set(views?.map((v) => v.viewer_ip)).size
UniqueViewers(data) ==
    Cardinality({OrEmpty(data)[i].viewer_ip : i \in 1..Len(OrEmpty(data))})

\* mutant of AvgTimeSpent: the sum is divided by the number of distinct viewers
AvgTimeSpentPerViewer(data) ==
    IF data.isNull THEN NaN
    ELSE Divide(SumTimeSpent(data.rows),
                IF UniqueViewers(data) # 0 THEN UniqueViewers(data) ELSE 1)

\* views?.reduce(...) / (totalViews || 1): undefined / 1 when views is null
AvgTimeSpent(data) ==
    IF data.isNull THEN NaN
    ELSE Divide(SumTimeSpent(data.rows),
                IF TotalViews(data) # 0 THEN TotalViews(data) ELSE 1)

\* views?.filter((v) => v.completed_steps === v.total_steps).length || 0
CompletedViews(data) ==
    Len(SelectSeq(OrEmpty(data), LAMBDA v : v.completed_steps = v.total_steps))

\* totalViews > 0 ? (completedViews / totalViews) * 100 : 0
CompletionRate(data) ==
    IF TotalViews(data) > 0
    THEN Divide(CompletedViews(data) * 100, TotalViews(data))
    ELSE Number(0)

\* getViewsByDay: one entry for i = days - 1 down to 0, labelled with the
\* local date of now - i days and counting the rows whose viewed_at starts
\* with the UTC date of that instant
getViewsByDay(views, days) ==
    [k \in 1..days |->
        [date |-> LocalDate(DaysBefore(dateNow, days - k)),
         views |-> Len(SelectSeq(views, LAMBDA v :
                      UTCDate(v.viewed_at) = UTCDate(DaysBefore(dateNow, days - k))))]]

\* demos.map(...): title, id and number of views of each demo, in the order
\* of demos
DemoViewCounts(views, demosSel) ==
    [k \in 1..Len(demosSel) |->
        [title |-> demosSel[k].title, id |-> demosSel[k].id,
         views |-> Len(SelectSeq(views, LAMBDA v : v.demo_id = demosSel[k].id))]]

\* .sort((a, b) => b.views - a.views): Array.prototype.sort is stable, equal
\* counts keep the order they had
RECURSIVE InsertByViews(_, _)
InsertByViews(x, sorted) ==
    IF sorted = <<>> THEN <<x>>
    ELSE IF Head(sorted).views >= x.views
         THEN <<Head(sorted)>> \o InsertByViews(x, Tail(sorted))
         ELSE <<x>> \o sorted

RECURSIVE SortByViews(_)
SortByViews(counts) ==
    IF counts = <<>> THEN <<>>
    ELSE InsertByViews(counts[Len(counts)],
                       SortByViews(SubSeq(counts, 1, Len(counts) - 1)))

\* .slice(0, 5)
TopCount == 5
Slice(s, n) == SubSeq(s, 1, IF Len(s) < n THEN Len(s) ELSE n)

getTopDemos(views, demosSel) ==
    Slice(SortByViews(DemoViewCounts(views, demosSel)), TopCount)

\* the fields of AnalyticsData the dashboard's contract covers (deviceTypes
\* and locations are mock values)
getEmptyAnalytics ==
    [totalViews |-> 0, uniqueViewers |-> 0, avgTimeSpent |-> Number(0),
     completionRate |-> Number(0), viewsByDay |-> <<>>, topDemos |-> <<>>]

\* the object both calls return from the fetched views
Summary(data, days, top) ==
    [totalViews |-> TotalViews(data), uniqueViewers |-> UniqueViewers(data),
     avgTimeSpent |-> AvgTimeSpent(data),
     completionRate |-> CompletionRate(data),
     viewsByDay |-> getViewsByDay(OrEmpty(data), days), topDemos |-> top]

\* the rows of demos a user owns, in the order the store returns them
OwnedDemos(userId) == SelectSeq(demoRows, LAMBDA d : d.owner_id = userId)

IdsOf(rows) == {rows[k].id : k \in 1..Len(rows)}

getUserAnalytics(userId, timeRange) ==
    /\ call = NoCall
    /\ \E demosFetch \in FetchOutcomes, viewsFetch \in FetchOutcomes \cup {"none"} :
          LET demosSel == IF demosFetch = "ok" THEN Data(OwnedDemos(userId))
                          ELSE NullData
              noDemos == demosSel.isNull \/ Len(demosSel.rows) = 0
              views == IF viewsFetch = "ok"
                       THEN Data(SelectViews(IdsOf(demosSel.rows),
                                             DaysBefore(dateNow, Days(timeRange))))
                       ELSE NullData
          IN  /\ (viewsFetch = "none") <=> (demosFetch = "throws" \/ noDemos)
              /\ call' = [fn |-> "getUserAnalytics", id |-> userId,
                          timeRange |-> timeRange, demosFetch |-> demosFetch,
                          viewsFetch |-> viewsFetch]
              /\ analytics' =
                    <<IF viewsFetch \in {"none", "throws"}
                      THEN getEmptyAnalytics
                      ELSE Summary(views, Days(timeRange),
                                   getTopDemos(OrEmpty(views), demosSel.rows))>>
    /\ UNCHANGED <<viewerVars, timerVars, dateNow, tzOffset, demoRows, viewRows>>

\* .from("demos").select("title").eq("id", demoId).single()
SelectDemo(demoId) == SelectSeq(demoRows, LAMBDA d : d.id = demoId)

getDemoAnalytics(demoId, timeRange) ==
    /\ call = NoCall
    /\ \E viewsFetch \in FetchOutcomes, demosFetch \in FetchOutcomes \cup {"none"} :
          LET views == IF viewsFetch = "ok"
                       THEN Data(SelectViews({demoId},
                                             DaysBefore(dateNow, Days(timeRange))))
                       ELSE NullData
              demoSel == IF demosFetch = "ok" /\ Len(SelectDemo(demoId)) = 1
                         THEN Data(SelectDemo(demoId))
                         ELSE NullData
          IN  /\ (demosFetch = "none") <=> (viewsFetch = "throws")
              /\ call' = [fn |-> "getDemoAnalytics", id |-> demoId,
                          timeRange |-> timeRange, demosFetch |-> demosFetch,
                          viewsFetch |-> viewsFetch]
              /\ analytics' =
                    <<IF viewsFetch = "throws" \/ demosFetch = "throws"
                      THEN getEmptyAnalytics
                      ELSE Summary(views, Days(timeRange),
                                   IF demoSel.isNull THEN <<>>
                                   ELSE <<[title |-> demoSel.rows[1].title,
                                           views |-> TotalViews(views),
                                           id |-> demoId]>>)>>
    /\ UNCHANGED <<viewerVars, timerVars, dateNow, tzOffset, demoRows, viewRows>>

\* ------------------------------------------------- the dashboard's inputs
\* no viewer is on a shared page while the dashboard is read
NoViewers ==
    /\ now = 0
    /\ share_links = [l \in LinkIds |->
          LinkRow(l, DemoOf(l), IF l = "L1" THEN <<1, 2>> ELSE <<2, 1>>,
                  NULL, TRUE, 0, NULL)]
    /\ demos = DemoIds
    /\ demo_steps = [d \in DemoIds |-> 1]
    /\ demo_views = <<>>
    /\ viewCount0 = [l \in LinkIds |-> 0]
    /\ InitViewers({}, NoToken)

\* the order in which the table's rows are read: it does not matter to the
\* aggregation, so one order stands for all
RowOrder(v) ==
    8 * v.viewed_at + 4 * (IF v.demo_id = "D1" THEN 0 ELSE 1)
    + 2 * (IF v.viewer_ip = "unknown" THEN 0 ELSE 1)
    + (IF v.completed_steps = v.total_steps THEN 0 ELSE 1)

ViewTables(rows) ==
    UNION {{f \in [1..n -> rows] :
               \A i \in 1..n, j \in 1..n : i < j => RowOrder(f[i]) <= RowOrder(f[j])}
           : n \in 0..MaxViews}

\* the first and the last tick of the day that is d days before day 100
DayTicks(d) == {(100 - d) * TicksPerDay, (100 - d) * TicksPerDay + TicksPerDay - 1}

\* one demo, views around the edges of the window, browsers in three time
\* zones early and late in the day
InitWindow ==
    /\ dateNow \in DayTicks(0)
    /\ tzOffset \in {-1, 0, 1}
    /\ demoRows = <<DemoRecord("D1", "U1")>>
    /\ viewRows \in ViewTables({ViewRecord("D1", "unknown", t, 10, 2, 2) :
                                   t \in UNION {DayTicks(d) : d \in {0, 1, 5, 6, 7, 8}}})

\* the tables of demos: D1 of user U1 and D2 of either user, in any order
DemoTables ==
    {<<>>, <<DemoRecord("D1", "U1")>>}
    \cup UNION {{<<DemoRecord("D2", o)>>,
                 <<DemoRecord("D1", "U1"), DemoRecord("D2", o)>>,
                 <<DemoRecord("D2", o), DemoRecord("D1", "U1")>>} : o \in UserIds}

\* views of today that differ in demo, viewer and progress
InitMetrics ==
    /\ dateNow = 100 * TicksPerDay
    /\ tzOffset = 0
    /\ demoRows \in DemoTables
    /\ viewRows \in ViewTables({ViewRecord(d, ip, 100 * TicksPerDay, p[1], p[2], p[3]) :
                                   d \in DemoIds, ip \in {"unknown", "ip1"},
                                   p \in {<<10, 2, 2>>, <<30, 1, 2>>}})

AggInit ==
    /\ NoViewers
    /\ NoTimers
    /\ InitWindow \/ InitMetrics
    /\ call = NoCall
    /\ analytics = <<>>

\* the dashboard makes one call when it is loaded
AggNext ==
    \/ \E u \in UserIds, r \in TimeRanges : getUserAnalytics(u, r)
    \/ \E d \in DemoIds, r \in TimeRanges : getDemoAnalytics(d, r)

AggSpec == AggInit /\ [][AggNext]_vars

\* ====================================================================
\* An open session: playback, and the two intervals on the clock
\* ====================================================================
\* the state in which validateAndFetchDemo has returned for viewer s, the
\* only one, on link L1 of a demo with n steps at time 0: the update of
\* view_count was accepted and the insert was accepted or not
Opened(s, n, inserted) ==
    /\ now = 0
    /\ share_links = [l \in LinkIds |->
          IF l = "L1" THEN LinkRow(l, DemoOf(l), <<1, 2>>, NULL, TRUE, 1, NULL)
          ELSE LinkRow(l, DemoOf(l), <<2, 1>>, NULL, TRUE, 0, NULL)]
    /\ demos = DemoIds
    /\ demo_steps = [d \in DemoIds |-> IF d = "D1" THEN n ELSE 1]
    /\ demo_views = IF inserted
                    THEN InsertRow(<<>>, BuildViewRecord("D1", "L1", InitialSteps, 0))
                    ELSE <<>>
    /\ viewCount0 = [l \in LinkIds |-> 0]
    /\ pc = [r \in Sessions |-> IF r = s THEN "ready" ELSE "absent"]
    /\ mounted = [r \in Sessions |-> r = s]
    /\ token = [r \in Sessions |-> IF r = s THEN <<1, 2>> ELSE NoToken]
    /\ linkData = [r \in Sessions |->
          IF r = s THEN {LinkRow("L1", "D1", <<1, 2>>, NULL, TRUE, 0, NULL)} ELSE {}]
    /\ shareLink = linkData
    /\ demo = [r \in Sessions |-> IF r = s THEN "D1" ELSE "none"]
    /\ steps = [r \in Sessions |-> IF r = s THEN n ELSE InitialSteps]
    /\ currentStep = [r \in Sessions |-> 0]
    /\ isPlaying = [r \in Sessions |-> FALSE]
    /\ loading = [r \in Sessions |-> r # s]
    /\ error = [r \in Sessions |-> NoError]
    /\ viewId = [r \in Sessions |-> IF r = s /\ inserted THEN 1 ELSE InitialViewId]
    /\ startTime = [r \in Sessions |-> 0]
    /\ updateError = [r \in Sessions |-> FALSE]
    /\ viewRecord = [r \in Sessions |->
          IF r = s THEN BuildViewRecord("D1", "L1", InitialSteps, 0) ELSE NoRecord]
    /\ teardownUpdate = [r \in Sessions |-> FALSE]

\* ----------------------------------------------------- playback, untimed
PlayInit ==
    /\ \E n \in 1..MaxSteps, inserted \in BOOLEAN : Opened("s1", n, inserted)
    /\ NoDashboard
    /\ NoTimers

PlayNext ==
    \/ Tick
    \/ \E s \in Sessions : nextStep(s)
    \/ \E s \in Sessions : prevStep(s)
    \/ \E s \in Sessions : restart(s)
    \/ \E s \in Sessions : togglePlay(s)
    \/ \E s \in Sessions : \E index \in 0..(steps[s] - 1) : jumpToStep(s, index)
    \/ \E s \in Sessions : AutoAdvance(s)
    \/ \E s \in Sessions : Heartbeat(s)

\* setInterval: while the interval of the auto-advance effect exists, its
\* tick comes
PlaySpec ==
    PlayInit /\ [][PlayNext]_vars /\ \A s \in Sessions : WF_vars(AutoAdvance(s))

\* ------------------------------------------------ the intervals, on the clock
MaxClock == 12          \* the clock runs over 0..MaxClock seconds
AdvanceSeconds == 3     \* setInterval(..., 3000) of the auto-advance effect
HeartbeatSeconds == 10  \* setInterval(..., 10000) of the heartbeat effect

\* the heartbeat effect has dependencies [viewId, currentStep]: when the
\* step changes, its cleanup clears the interval and the effect sets a new one
HeartbeatAfter(s, step) ==
    IF step # currentStep[s] THEN [hbDue EXCEPT ![s] = now + HeartbeatSeconds]
    ELSE hbDue

\* the auto-advance effect has dependencies [isPlaying, steps.length]: when
\* isPlaying changes, its cleanup clears the interval and the effect sets a
\* new one if isPlaying
AdvanceAfter(s, playing) ==
    IF playing = isPlaying[s] THEN advDue
    ELSE [advDue EXCEPT ![s] = IF playing THEN now + AdvanceSeconds ELSE NULL]

\* a call of updateViewProgress or trackCompletion issues an update when
\* viewId is set
IssuedAt(s) == IF viewId[s] # NULL THEN [lastUpdate EXCEPT ![s] = now] ELSE lastUpdate

timedFrame == <<now, share_links, demos, demo_steps, viewCount0, pc, mounted,
                token, linkData, shareLink, demo, steps, loading, error, viewId,
                updateError, viewRecord, teardownUpdate, dashVars>>

\* a second passes; a tick of an interval that is due comes first
TimedTick ==
    /\ now < MaxClock
    /\ \A s \in Sessions :
          /\ hbDue[s] = NULL \/ hbDue[s] > now
          /\ advDue[s] = NULL \/ advDue[s] > now
    /\ now' = now + 1
    /\ UNCHANGED <<storeVars, pc, mounted, token, linkData, shareLink, demo,
                   steps, playVars, loading, error, viewId, updateError,
                   viewRecord, teardownUpdate, dashVars, timerVars>>

TimedNextStep(s) ==
    /\ Playable(s)
    /\ currentStep[s] < steps[s] - 1
    /\ currentStep' = [currentStep EXCEPT ![s] = currentStep[s] + 1]
    /\ updateViewProgress(viewId[s], startTime[s], currentStep[s])
    /\ lastUpdate' = IssuedAt(s)
    /\ hbDue' = HeartbeatAfter(s, currentStep[s] + 1)
    /\ UNCHANGED <<timedFrame, isPlaying, startTime, advDue>>

TimedPrevStep(s) ==
    /\ Playable(s)
    /\ currentStep[s] > 0
    /\ currentStep' = [currentStep EXCEPT ![s] = currentStep[s] - 1]
    /\ updateViewProgress(viewId[s], startTime[s], currentStep[s])
    /\ lastUpdate' = IssuedAt(s)
    /\ hbDue' = HeartbeatAfter(s, currentStep[s] - 1)
    /\ UNCHANGED <<timedFrame, isPlaying, startTime, advDue>>

TimedRestart(s) ==
    /\ Playable(s)
    /\ ~(currentStep[s] = 0 /\ ~isPlaying[s])
    /\ currentStep' = [currentStep EXCEPT ![s] = 0]
    /\ isPlaying' = [isPlaying EXCEPT ![s] = FALSE]
    /\ startTime' = [startTime EXCEPT ![s] = now]
    /\ updateViewProgress(viewId[s], now, currentStep[s])
    /\ lastUpdate' = IssuedAt(s)
    /\ hbDue' = HeartbeatAfter(s, 0)
    /\ advDue' = AdvanceAfter(s, FALSE)
    /\ UNCHANGED timedFrame

TimedTogglePlay(s) ==
    /\ Playable(s)
    /\ ~(currentStep[s] >= steps[s] - 1 /\ ~isPlaying[s])
    /\ isPlaying' = [isPlaying EXCEPT ![s] = ~isPlaying[s]]
    /\ advDue' = AdvanceAfter(s, ~isPlaying[s])
    /\ UNCHANGED <<timedFrame, demo_views, currentStep, startTime, hbDue, lastUpdate>>

TimedJumpToStep(s, index) ==
    /\ Playable(s)
    /\ currentStep' = [currentStep EXCEPT ![s] = index]
    /\ updateViewProgress(viewId[s], startTime[s], currentStep[s])
    /\ lastUpdate' = IssuedAt(s)
    /\ hbDue' = HeartbeatAfter(s, index)
    /\ UNCHANGED <<timedFrame, isPlaying, startTime, advDue>>

\* the tick of the 3 s interval, when it is due
TimedAutoAdvance(s) ==
    /\ AdvanceTimerActive(s)
    /\ advDue[s] = now
    /\ IF currentStep[s] >= steps[s] - 1
       THEN /\ isPlaying' = [isPlaying EXCEPT ![s] = FALSE]
            /\ trackCompletion(s)
            /\ lastUpdate' = IssuedAt(s)
            /\ advDue' = AdvanceAfter(s, FALSE)
            /\ UNCHANGED <<currentStep, hbDue>>
       ELSE /\ currentStep' = [currentStep EXCEPT ![s] = currentStep[s] + 1]
            /\ advDue' = [advDue EXCEPT ![s] = now + AdvanceSeconds]
            /\ hbDue' = HeartbeatAfter(s, currentStep[s] + 1)
            /\ UNCHANGED <<isPlaying, demo_views, lastUpdate>>
    /\ UNCHANGED <<timedFrame, startTime>>

\* the tick of the 10 s interval, when it is due
TimedHeartbeat(s) ==
    /\ HeartbeatTimerActive(s)
    /\ hbDue[s] = now
    /\ updateViewProgress(viewId[s], startTime[s], currentStep[s])
    /\ lastUpdate' = IssuedAt(s)
    /\ hbDue' = [hbDue EXCEPT ![s] = now + HeartbeatSeconds]
    /\ UNCHANGED <<timedFrame, playVars, advDue>>

\* the viewer's open has just returned with its view record: the heartbeat
\* effect ran again for the new viewId
TimerInit ==
    /\ \E n \in 1..MaxSteps : Opened("s1", n, TRUE)
    /\ NoDashboard
    /\ hbDue = [s \in Sessions |-> IF s = "s1" THEN HeartbeatSeconds ELSE NULL]
    /\ advDue = [s \in Sessions |-> NULL]
    /\ lastUpdate = [s \in Sessions |-> IF s = "s1" THEN 0 ELSE NULL]

TimerNext ==
    \/ TimedTick
    \/ \E s \in Sessions : TimedNextStep(s)
    \/ \E s \in Sessions : TimedPrevStep(s)
    \/ \E s \in Sessions : TimedRestart(s)
    \/ \E s \in Sessions : TimedTogglePlay(s)
    \/ \E s \in Sessions : \E index \in 0..(steps[s] - 1) : TimedJumpToStep(s, index)
    \/ \E s \in Sessions : TimedAutoAdvance(s)
    \/ \E s \in Sessions : TimedHeartbeat(s)

TimerSpec == TimerInit /\ [][TimerNext]_vars

\* ====================================================================
\* Properties
\* ====================================================================
\* the viewers that open the page in this behaviour
Present == {s \in Sessions : pc[s] # "absent"}

\* the link a viewer was granted
LinkOf(s) == Row(linkData[s]).id

\* the viewer has passed the view_count update of trackView
PastIncrement(s) == pc[s] \in {"insertView", "ready"}

\* the viewer takes the step that decides its validation
Validates(s) == pc[s] = "checkLink" /\ pc'[s] # "checkLink"

GuardErrors == {LinkInvalid, LinkExpired, LinkExhausted}

\* C1 as stated: with a single viewer, once its open has passed the update of
\* the link, the link's view_count is its initial value plus 1, whatever
\* progress, completion or teardown calls follow.
C1_PlusOneAlways ==
    \A s \in Sessions :
        (Present = {s} /\ PastIncrement(s)) =>
            share_links[LinkOf(s)].view_count = viewCount0[LinkOf(s)] + 1

\* C1 amended: with a single viewer, every link's view_count is its initial
\* value, plus 1 for the viewer's link once its open has passed an update that
\* the store accepted, and plus 0 when the store rejected that update; no later
\* progress, completion or teardown call changes it again.
C1_OncePerSession ==
    \A s \in Sessions :
        Present = {s} =>
            \A l \in LinkIds :
                share_links[l].view_count = viewCount0[l] +
                    (IF PastIncrement(s) /\ ~updateError[s] /\ l = LinkOf(s)
                     THEN 1 ELSE 0)

\* C1 witness: a single viewer opened, its update and insert succeeded, a
\* progress write has reached the record and the component has unmounted.
C1_Witness ==
    \E s \in Sessions :
        /\ Present = {s} /\ pc[s] = "ready" /\ ~updateError[s] /\ ~mounted[s]
        /\ viewId[s] # NULL
        /\ demo_views[viewId[s]].completed_steps > 0
        /\ share_links[LinkOf(s)].view_count = viewCount0[LinkOf(s)] + 1

\* the viewers whose open finished with both writes accepted
OpenedOk == {s \in Sessions : pc[s] = "ready" /\ ~updateError[s] /\ viewId[s] # NULL}

\* C2: once every viewer has finished its open successfully, each link's
\* view_count is its initial value plus the number of viewers that opened it.
C2_NoLostIncrement ==
    (Present # {} /\ OpenedOk = Present) =>
        \A l \in LinkIds :
            share_links[l].view_count =
                viewCount0[l] + Cardinality({s \in OpenedOk : LinkOf(s) = l})

\* C3: no step writes a view_count lower than the value stored before it.
C3_ViewCountMonotonic ==
    [][\A l \in LinkIds :
          share_links'[l].view_count >= share_links[l].view_count]_vars

\* the spec's definition of a usable link, on a row and a time
Usable(row, t) ==
    /\ row.is_active
    /\ (row.expires_at = NULL \/ row.expires_at > t)
    /\ (row.max_views = NULL \/ row.view_count < row.max_views)

\* C4: validation grants access (sets shareLink and goes on to the demo) if
\* and only if the row it read for the token is usable at that time.
C4_GrantedIffUsable ==
    [][\A s \in Sessions :
          Validates(s) =>
              ((shareLink'[s] # {}) <=> (\E r \in linkData[s] : Usable(r, now)))]_vars

\* no active link has exactly this token
NoActiveLink(tok) ==
    ~\E l \in LinkIds : share_links[l].token = tok /\ share_links[l].is_active

\* C5: a viewer whose token equals the token of no active link ends in the
\* link-invalid error state: not granted, not expired, not exhausted.
C5_UnknownOrInactiveIsInvalid ==
    \A s \in Sessions :
        (pc[s] \notin {"absent", "mount", "checkLink"} /\ NoActiveLink(token[s])) =>
            /\ pc[s] = "done"
            /\ error[s] = LinkInvalid
            /\ shareLink[s] = {}
            /\ ~loading[s]

\* C5 witness: a validation that ended link-invalid on the exact token of a
\* link that is not active.
C5_Witness ==
    \E s \in Sessions :
        /\ pc[s] = "done" /\ error[s] = LinkInvalid
        /\ \E l \in LinkIds : share_links[l].token = token[s] /\ ~share_links[l].is_active

\* C6: when a viewer validates the token of an active link whose expires_at
\* is before the current time, it ends in the link-expired error state,
\* whatever view_count and max_views are.
C6_ExpiredTakesPrecedence ==
    [][\A s \in Sessions :
          (/\ Validates(s)
           /\ \E l \in LinkIds :
                 /\ share_links[l].token = token[s]
                 /\ share_links[l].is_active
                 /\ share_links[l].expires_at # NULL
                 /\ share_links[l].expires_at < now) =>
              /\ pc'[s] = "done"
              /\ error'[s] = LinkExpired
              /\ shareLink'[s] = {}]_vars

\* C6 witness: a validation ended link-expired on a link that has also
\* reached its view limit.
C6_Witness ==
    \E s \in Sessions :
        /\ pc[s] = "done" /\ error[s] = LinkExpired
        /\ \E l \in LinkIds :
              /\ share_links[l].token = token[s]
              /\ share_links[l].max_views # NULL
              /\ share_links[l].max_views > 0
              /\ share_links[l].view_count >= share_links[l].max_views

\* C7: when the row validation read is active and unexpired and has a
\* max_views (any integer) with view_count >= max_views, validation ends in
\* the link-exhausted error state and grants nothing.
C7_ExhaustedAtCeiling ==
    [][\A s \in Sessions :
          (/\ Validates(s)
           /\ \E r \in linkData[s] :
                 /\ r.expires_at = NULL \/ r.expires_at > now
                 /\ r.max_views # NULL
                 /\ r.view_count >= r.max_views) =>
              /\ pc'[s] = "done"
              /\ error'[s] = LinkExhausted
              /\ shareLink'[s] = {}]_vars

\* C8: the steps of validation leave every row of share_links and of
\* demo_views as they were; and a viewer whose validation ended link-invalid,
\* link-expired or link-exhausted has no view record and has built none, every
\* view record in the store belongs to another viewer, and when it is the only
\* viewer every link's view_count is the initial one.
C8_ValidationNoSideEffect ==
    /\ [][\A s \in Sessions :
             (pc[s] \in {"mount", "checkLink"} /\ pc'[s] # pc[s]) =>
                 /\ share_links' = share_links
                 /\ demo_views' = demo_views]_vars
    /\ [](\A s \in Sessions :
            error[s] \in GuardErrors =>
                /\ viewId[s] = NULL
                /\ viewRecord[s] = NoRecord
                /\ \A i \in 1..Len(demo_views) :
                      \E r \in Sessions \ {s} : viewId[r] = i
                /\ Present = {s} =>
                      \A l \in LinkIds : share_links[l].view_count = viewCount0[l])

\* C8 witness: a validation ended link-exhausted on a link that other limits
\* did not stop.
C8_Witness ==
    \E s \in Sessions :
        /\ error[s] = LinkExhausted /\ pc[s] = "done" /\ ~mounted[s]
        /\ demo_views = <<>>

\* C9: whenever a viewer's increment of view_count has been applied, its view
\* record exists.
C9_IncrementAfterRecord ==
    \A s \in Sessions :
        (PastIncrement(s) /\ ~updateError[s]) => viewId[s] # NULL

\* C10 as stated: every viewer whose open has finished has a view record.
C10_ExactlyOneAlways ==
    \A s \in Sessions :
        pc[s] = "ready" =>
            /\ viewId[s] # NULL
            /\ Len(demo_views) = Cardinality({r \in Sessions : pc[r] = "ready"})

\* the step in which the insert of a viewer's view record is accepted
Inserts(s) == pc[s] = "insertView" /\ viewId'[s] # NULL

\* C10 amended: a viewer has at most one view record, exactly one once the
\* store has accepted its insert and none before that or when the store
\* rejected it; the records are those of the viewers, one each; the row is
\* built with viewed_at = the time open is called; and the record is created
\* with that viewed_at, time_spent = 0, completed_steps = 0, the demo id and
\* the link id of the viewer's link.
C10_OneRecordPerOpen ==
    /\ [](/\ Len(demo_views) = Cardinality({s \in Sessions : viewId[s] # NULL})
          /\ \A s \in Sessions : viewId[s] # NULL =>
                /\ pc[s] = "ready"
                /\ viewId[s] \in 1..Len(demo_views)
                /\ \A r \in Sessions \ {s} : viewId[r] # viewId[s])
    /\ [][\A s \in Sessions :
             /\ (pc[s] = "trackView" /\ pc'[s] = "insertView") =>
                    viewRecord'[s].viewed_at = now
             /\ Inserts(s) =>
                    /\ Len(demo_views') = Len(demo_views) + 1
                    /\ SubSeq(demo_views', 1, Len(demo_views)) = demo_views
                    /\ demo_views'[viewId'[s]].viewed_at = viewRecord[s].viewed_at
                    /\ demo_views'[viewId'[s]].time_spent = 0
                    /\ demo_views'[viewId'[s]].completed_steps = 0
                    /\ demo_views'[viewId'[s]].demo_id = Row(shareLink[s]).demo_id
                    /\ demo_views'[viewId'[s]].share_link_id = Row(shareLink[s]).id]_vars

\* C10 witness: a record created at time 1 through link L1 that no progress
\* write has touched yet.
C10_Witness ==
    \E s \in Sessions :
        /\ pc[s] = "ready" /\ viewId[s] # NULL
        /\ demo_views[viewId[s]].viewed_at = 1
        /\ demo_views[viewId[s]].share_link_id = "L1"
        /\ demo_views[viewId[s]].time_spent = 0
        /\ demo_views[viewId[s]].completed_steps = 0

\* the view records that exist
Records == 1..Len(demo_views)

\* C11: the total_steps of a viewer's view record is the number of steps of
\* its demo when the session was opened.
C11_TotalStepsIsStepCount ==
    \A s \in Sessions :
        viewId[s] # NULL =>
            demo_views[viewId[s]].total_steps = demo_steps[demo_views[viewId[s]].demo_id]

\* C12: every view record has completed_steps <= total_steps.
C12_CompletedWithinTotal ==
    \A i \in Records : demo_views[i].completed_steps <= demo_views[i].total_steps

\* C13: no step stores a completed_steps lower than the one stored before.
C13_CompletedStepsMonotonic ==
    [][\A i \in Records :
          demo_views'[i].completed_steps >= demo_views[i].completed_steps]_vars

\* C14: no step stores a time_spent lower than the one stored before.
C14_TimeSpentMonotonic ==
    [][\A i \in Records :
          demo_views'[i].time_spent >= demo_views[i].time_spent]_vars

\* C15: a progress update overwrites: on any stored records, an update
\* (t1, c1) followed by an update (t2, c2) of the same record leaves it with
\* time_spent = t2 and completed_steps = c2, and repeating an update changes
\* nothing; and in every step that changes a record, the record is left with
\* exactly the values its viewer supplied in that step (elapsed time, and
\* the step of the handler's render plus 1 or the number of steps).
C15_LastWriteWins ==
    /\ [](\A id \in Records, t1 \in 0..MaxTime, t2 \in 0..MaxTime,
             c1 \in 0..MaxSteps, c2 \in 0..MaxSteps :
             /\ WriteProgress(WriteProgress(demo_views, id, t1, c1), id, t2, c2)[id].time_spent = t2
             /\ WriteProgress(WriteProgress(demo_views, id, t1, c1), id, t2, c2)[id].completed_steps = c2
             /\ WriteProgress(WriteProgress(demo_views, id, t2, c2), id, t2, c2)
                   = WriteProgress(demo_views, id, t2, c2))
    /\ [][\A i \in Records :
             demo_views'[i] # demo_views[i] =>
                 \E s \in Sessions :
                     /\ viewId[s] = i
                     /\ demo_views'[i].time_spent = now - startTime'[s]
                     /\ demo_views'[i].completed_steps \in {currentStep[s] + 1, steps[s]}]_vars

\* C15 witness: a record that progress updates have overwritten with a later
\* time and a later step.
C15_Witness ==
    \E i \in Records :
        demo_views[i].time_spent = 2 /\ demo_views[i].completed_steps = 2

\* C16: a progress update leaves demo_id, viewed_at, total_steps and
\* share_link_id of its record and every other record as they were: this holds
\* of an update with any values on any stored records, and of every step.
C16_UpdateFrame ==
    /\ [](\A id \in Records, t \in 0..MaxTime, c \in 0..MaxSteps :
             /\ Len(WriteProgress(demo_views, id, t, c)) = Len(demo_views)
             /\ \A j \in Records \ {id} :
                   WriteProgress(demo_views, id, t, c)[j] = demo_views[j]
             /\ WriteProgress(demo_views, id, t, c)[id].demo_id = demo_views[id].demo_id
             /\ WriteProgress(demo_views, id, t, c)[id].viewed_at = demo_views[id].viewed_at
             /\ WriteProgress(demo_views, id, t, c)[id].total_steps = demo_views[id].total_steps
             /\ WriteProgress(demo_views, id, t, c)[id].share_link_id = demo_views[id].share_link_id)
    /\ [][/\ Len(demo_views') >= Len(demo_views)
          /\ \A i \in Records :
                /\ demo_views'[i].demo_id = demo_views[i].demo_id
                /\ demo_views'[i].viewed_at = demo_views[i].viewed_at
                /\ demo_views'[i].total_steps = demo_views[i].total_steps
                /\ demo_views'[i].share_link_id = demo_views[i].share_link_id
                /\ demo_views'[i] # demo_views[i] =>
                      \A j \in Records \ {i} : demo_views'[j] = demo_views[j]]_vars

\* C16 witness: two records, one of them changed by a progress update and the
\* other still as created.
C16_Witness ==
    \E i \in Records, j \in Records :
        /\ i # j
        /\ demo_views[i].completed_steps = 1
        /\ demo_views[j].completed_steps = 0

\* a write of the viewer's open was rejected by the store
OpenWriteFailed(s) == pc[s] = "ready" /\ (updateError[s] \/ viewId[s] = NULL)

\* C17: after an open in which the view_count update or the insert of the
\* view record (or both) failed, the viewer is not loading and shows no error;
\* while it is mounted on a demo with steps the controls are rendered, Next
\* can be taken below the last step, Previous above the first and, while
\* playing, the auto-advance tick.
C17_WriteFailureKeepsPlayback ==
    \A s \in Sessions :
        OpenWriteFailed(s) =>
            /\ ~loading[s]
            /\ error[s] = NoError
            /\ (mounted[s] /\ steps[s] > 0) =>
                  /\ Playable(s)
                  /\ currentStep[s] < steps[s] - 1 => ENABLED nextStep(s)
                  /\ currentStep[s] > 0 => ENABLED prevStep(s)
                  /\ isPlaying[s] => ENABLED AutoAdvance(s)

\* C17 witness: both writes of the open failed and the viewer has since
\* advanced to the second step.
C17_Witness ==
    \E s \in Sessions :
        /\ pc[s] = "ready" /\ updateError[s] /\ viewId[s] = NULL
        /\ demo_views = <<>>
        /\ currentStep[s] = 1

\* C18: once the link is validated and the demo and its steps are loaded, a
\* mounted viewer of a demo with steps has its controls rendered, also while
\* the tracking calls of its open are still pending.
C18_PlaybackNeverWaits ==
    \A s \in Sessions :
        (pc[s] \in {"trackView", "insertView"} /\ mounted[s] /\ steps[s] > 0) =>
            Playable(s)

\* C19: when a viewer that has a view record unmounts, the cleanup issues a
\* final progress update.
C19_FinalUpdateOnTeardown ==
    [][\A s \in Sessions :
          (mounted[s] /\ ~mounted'[s] /\ viewId[s] # NULL) => teardownUpdate'[s]]_vars

\* C20: once a viewer has unmounted, no step changes its step index, its
\* play state or its reference time, and none writes to its view record: no
\* tick of the auto-advance or of the heartbeat interval acts for it.
C20_TimersCancelledOnTeardown ==
    [][\A s \in Sessions :
          (pc[s] # "absent" /\ ~mounted[s]) =>
              /\ currentStep'[s] = currentStep[s]
              /\ isPlaying'[s] = isPlaying[s]
              /\ startTime'[s] = startTime[s]
              /\ viewId[s] # NULL => demo_views'[viewId[s]] = demo_views[viewId[s]]]_vars

\* C20 witness: a viewer unmounted while playing below the last step, and the
\* clock has since passed the time its record holds.
C20_Witness ==
    \E s \in Sessions :
        /\ pc[s] = "ready" /\ ~mounted[s] /\ viewId[s] # NULL
        /\ isPlaying[s] /\ currentStep[s] < steps[s] - 1
        /\ demo_views[viewId[s]].time_spent < now - startTime[s]

\* the viewers that validation granted playback through link l
Granted(l) == {s \in Sessions : shareLink[s] # {} /\ LinkOf(s) = l}

\* C27: for a link with a positive max_views = m that started at or below
\* it, at most m viewers are granted playback and the stored view_count is
\* at most m, in every interleaving of the viewers' steps.
C27_CeilingUnderConcurrency ==
    \A l \in LinkIds :
        (/\ share_links[l].max_views # NULL
         /\ share_links[l].max_views > 0
         /\ viewCount0[l] <= share_links[l].max_views) =>
            /\ Cardinality(Granted(l)) <= share_links[l].max_views
            /\ share_links[l].view_count <= share_links[l].max_views

\* C28: while a viewer with a view record is open, a progress update has
\* been issued within the last 10 seconds, counted from the creation of the
\* record: no 10-second interval passes without one.
C28_UpdateEveryInterval ==
    \A s \in Sessions :
        (pc[s] = "ready" /\ mounted[s] /\ viewId[s] # NULL) =>
            now - lastUpdate[s] <= HeartbeatSeconds

\* the viewer is at the last step of its demo
AtLastStep(s) == currentStep[s] = steps[s] - 1

\* the safety part of C29: for an open viewer of a demo with n >= 1 steps,
\* 0 <= currentStep <= n - 1 in every state; Next can change nothing at the
\* last step, nor Previous at step 0; and a Restart leaves currentStep = 0 and
\* isPlaying = false.
C29_StepInRange ==
    /\ [](\A s \in Sessions :
            (pc[s] = "ready" /\ steps[s] >= 1) =>
                /\ 0 <= currentStep[s] /\ currentStep[s] <= steps[s] - 1
                /\ AtLastStep(s) => ~ENABLED nextStep(s)
                /\ currentStep[s] = 0 => ~ENABLED prevStep(s))
    /\ [][\A s \in Sessions :
             restart(s) => (currentStep'[s] = 0 /\ ~isPlaying'[s])]_vars

\* C29 as stated: the playback state is well-formed, and auto-play that has
\* reached the last step eventually stops.
C29_AutoPlayAlwaysStops ==
    /\ C29_StepInRange
    /\ \A s \in Sessions : (isPlaying[s] /\ AtLastStep(s)) ~> ~isPlaying[s]

\* C29 amended: the playback state is well-formed, and auto-play that has
\* reached the last step eventually stops unless the viewer first steps
\* back from the last step (Previous or a step button) while it plays.
C29_PlaybackWellFormed ==
    /\ C29_StepInRange
    /\ \A s \in Sessions :
          (isPlaying[s] /\ AtLastStep(s)) ~> (~isPlaying[s] \/ ~AtLastStep(s))

\* C29 witness: auto-play is running at the last step of a two-step demo,
\* for a viewer whose view record was never created.
C29_Witness ==
    \E s \in Sessions :
        /\ pc[s] = "ready" /\ viewId[s] = NULL
        /\ steps[s] = 2 /\ AtLastStep(s) /\ isPlaying[s]

\* ------------------------------------------------------- the dashboard
\* a call has returned, and what it returned
Returned == analytics # <<>>
Result == analytics[1]

\* the window of the call in days, and the demos it summarizes
WindowDays == Days(call.timeRange)
CallDemos ==
    IF call.fn = "getUserAnalytics"
    THEN {demoRows[k].id : k \in {j \in 1..Len(demoRows) : demoRows[j].owner_id = call.id}}
    ELSE {call.id}

\* the view records the call is to summarize: those of its demos with
\* viewed_at >= now - windowDays days
Fetched ==
    SelectSeq(viewRows, LAMBDA v :
        v.demo_id \in CallDemos /\ v.viewed_at >= dateNow - WindowDays * TicksPerDay)

\* no fetch of the call failed
NoFetchFailed == call.demosFetch = "ok" /\ call.viewsFetch \in {"ok", "none"}

\* C21: a call none of whose fetches failed and that has no matching view
\* record returns totalViews, uniqueViewers, avgTimeSpent and completionRate
\* 0, a viewsByDay of windowDays entries that all count 0, and no topDemos.
C21_EmptySummary ==
    (Returned /\ NoFetchFailed /\ Fetched = <<>>) =>
        /\ Result.totalViews = 0
        /\ Result.uniqueViewers = 0
        /\ Result.avgTimeSpent = Number(0)
        /\ Result.completionRate = Number(0)
        /\ Len(Result.viewsByDay) = WindowDays
        /\ \A k \in 1..Len(Result.viewsByDay) : Result.viewsByDay[k].views = 0
        /\ Result.topDemos = <<>>

\* C22: a call whose fetch of the view records failed (error with no data,
\* or a rejected call) returns totalViews, uniqueViewers, avgTimeSpent and
\* completionRate all the number 0.
C22_ZeroedOnFetchFailure ==
    (Returned /\ call.viewsFetch \in {"error", "throws"}) =>
        /\ Result.totalViews = 0
        /\ Result.uniqueViewers = 0
        /\ Result.avgTimeSpent = Number(0)
        /\ Result.completionRate = Number(0)

\* lexicographic order of the titles of the demos
TitleBefore(a, b) == a = "Alpha" /\ b = "Beta"

\* C23: topDemos of a user-level summary has at most 5 entries, ordered by
\* views descending and, among equal views, by title ascending.
C23_TopDemosOrder ==
    (Returned /\ call.fn = "getUserAnalytics") =>
        /\ Len(Result.topDemos) <= 5
        /\ \A i \in 1..Len(Result.topDemos), j \in 1..Len(Result.topDemos) :
              i < j =>
                 \/ Result.topDemos[i].views > Result.topDemos[j].views
                 \/ /\ Result.topDemos[i].views = Result.topDemos[j].views
                    /\ TitleBefore(Result.topDemos[i].title, Result.topDemos[j].title)

\* C24: viewsByDay of every returned summary has windowDays entries, the
\* k-th for the calendar day windowDays - k days before today, and an entry
\* counts 0 when no fetched record is dated that day.
C24_ViewsByDayShape ==
    Returned =>
        /\ Len(Result.viewsByDay) = WindowDays
        /\ \A k \in 1..Len(Result.viewsByDay) :
              /\ Result.viewsByDay[k].date = LocalDate(dateNow) - (WindowDays - k)
              /\ (\A i \in 1..Len(Fetched) :
                     LocalDate(Fetched[i].viewed_at) # Result.viewsByDay[k].date)
                 => Result.viewsByDay[k].views = 0

\* the records of the call's demos that are dated n days before today
Dated(n) ==
    SelectSeq(viewRows, LAMBDA v :
        v.demo_id \in CallDemos /\ LocalDate(v.viewed_at) = LocalDate(dateNow) - n)

\* C25: a 7-day summary none of whose fetches failed counts every record
\* dated today and every record dated 6 days ago in totalViews and in the
\* entry of its day, and counts no record dated 8 days ago.
C25_WindowEdges ==
    (Returned /\ NoFetchFailed /\ call.timeRange = "7d") =>
        /\ Result.totalViews >= Len(Dated(0)) + Len(Dated(6))
        /\ \A n \in {0, 6} :
              Dated(n) # <<>> =>
                 \E k \in 1..Len(Result.viewsByDay) :
                    /\ Result.viewsByDay[k].date = LocalDate(dateNow) - n
                    /\ Result.viewsByDay[k].views >= Len(Dated(n))
        /\ Result.totalViews + Len(Dated(8))
              <= Cardinality({i \in 1..Len(viewRows) : viewRows[i].demo_id \in CallDemos})
        /\ \A k \in 1..Len(Result.viewsByDay) :
              Result.viewsByDay[k].date # LocalDate(dateNow) - 8

\* the reference algorithm: sum of time_spent and number of completed
\* records of a sequence of records
RECURSIVE RefSum(_, _)
RefSum(rows, n) == IF n = 0 THEN 0 ELSE rows[n].time_spent + RefSum(rows, n - 1)
RefCompleted(rows) ==
    Cardinality({i \in 1..Len(rows) : rows[i].completed_steps = rows[i].total_steps})
Max(a, b) == IF a >= b THEN a ELSE b

\* C26: a summary none of whose fetches failed has
\* avgTimeSpent = sum(time_spent) / max(totalViews, 1) and
\* completionRate = 100 * completed / max(totalViews, 1) over the fetched
\* records, with totalViews the number of fetched records.
C26_ScalarMetrics ==
    (Returned /\ NoFetchFailed) =>
        /\ Result.totalViews = Len(Fetched)
        /\ Result.avgTimeSpent.den # 0
        /\ Result.avgTimeSpent.num * Max(Len(Fetched), 1)
              = RefSum(Fetched, Len(Fetched)) * Result.avgTimeSpent.den
        /\ Result.completionRate.den # 0
        /\ Result.completionRate.num * Max(Len(Fetched), 1)
              = 100 * RefCompleted(Fetched) * Result.completionRate.den

\* C26 witness: the summary of the records (10 s, 2 of 2) and (30 s, 1 of 2)
\* has avgTimeSpent 20 and completionRate 50.
C26_Witness ==
    /\ Returned /\ NoFetchFailed
    /\ Len(Fetched) = 2
    /\ \E i \in 1..2 : Fetched[i].time_spent = 10 /\ Fetched[i].completed_steps = 2
    /\ \E i \in 1..2 : Fetched[i].time_spent = 30 /\ Fetched[i].completed_steps = 1
    /\ Result.avgTimeSpent = [num |-> 20, den |-> 1]
    /\ Result.completionRate = [num |-> 50, den |-> 1]

RECURSIVE SumOfViews(_, _)
SumOfViews(series, n) == IF n = 0 THEN 0 ELSE series[n].views + SumOfViews(series, n - 1)

\* C30: in a summary none of whose fetches failed, the counts of viewsByDay
\* add up to totalViews, the number of fetched records.
C30_BucketsSumToTotal ==
    (Returned /\ NoFetchFailed) =>
        /\ Result.totalViews = Len(Fetched)
        /\ SumOfViews(Result.viewsByDay, Len(Result.viewsByDay)) = Result.totalViews

====
